---- MODULE Spec2Model ----
(***************************************************************************)
(* matrix_converters: binary matrix codecs (MDF, EMX, FORTRAN .bin).       *)
(*                                                                         *)
(* A file is a sequence of 4-byte words.  A word is named by the value of  *)
(* its 32 bits read as a two's-complement int32, so that every bit pattern *)
(* has one name that fits 32-bit integers.        A float32 array element *)
(* is kept as its word (its IEEE-754 bit pattern); the numbers a caller    *)
(* passes in (float64 or integer cells of a DataFrame, Series or ndarray)  *)
(* are non-negative integers.                                              *)
(***************************************************************************)
EXTENDS Integers, Sequences, FiniteSets, TLC

VARIABLES file, call, res, ops

vars == <<file, call, res, ops>>

\* Largest matrix dimension of an input.
MaxN == 2

----------------------------------------------------------------------------
\* Arithmetic helpers.

RECURSIVE Pow2(_)
Pow2(n) == IF n = 0 THEN 1 ELSE 2 * Pow2(n - 1)

RECURSIVE FloorLog2(_)
FloorLog2(v) == IF v < 2 THEN 0 ELSE 1 + FloorLog2(v \div 2)

Min(a, b) == IF a < b THEN a ELSE b

\* astype(np.float32) on a non-negative integer below 2^25: the nearest
\* float32, ties to the even significand.
RoundF32(v) ==
    IF v < Pow2(24) THEN v
    ELSE LET q  == Pow2(FloorLog2(v) - 23)
             lo == (v \div q) * q
             r  == v - lo
         IN  IF 2 * r < q THEN lo
             ELSE IF 2 * r > q THEN lo + q
             ELSE IF (lo \div q) % 2 = 0 THEN lo ELSE lo + q

\* The IEEE-754 single-precision bit pattern of astype(np.float32)(v).
F32Bits(v) ==
    IF v = 0 THEN 0
    ELSE LET w == RoundF32(v)
             e == FloorLog2(w)
         IN  (127 + e) * Pow2(23)
             + (IF e <= 23 THEN (w - Pow2(e)) * Pow2(23 - e)
                           ELSE (w - Pow2(e)) \div Pow2(e - 23))

\* The float32 NaN pandas uses for a missing cell (0x7FC00000).
NaNBits == 255 * Pow2(23) + Pow2(22)

IsNaN(b) == b >= 0 /\ b \div Pow2(23) = 255 /\ b % Pow2(23) # 0

\* Whether the float32 with bit pattern b is a non-negative integer, and which.
IsIntegralF32(b) ==
    \/ b = 0
    \/ /\ b > 0
       /\ LET e == (b \div Pow2(23)) - 127
          IN  /\ e >= 0
              /\ e < 128
              /\ (e < 23 => (b % Pow2(23)) % Pow2(23 - e) = 0)

F32Int(b) ==
    IF b = 0 THEN 0
    ELSE LET e   == (b \div Pow2(23)) - 127
             sig == Pow2(23) + (b % Pow2(23))
         IN  IF e >= 23 THEN sig * Pow2(e - 23) ELSE sig \div Pow2(23 - e)

\* The float32 element with pattern b has exactly the numeric value v.
F32Equals(b, v) == IsIntegralF32(b) /\ F32Int(b) = v

\* values.astype(np.float32), element by element.
AsFloat32(values) == [i \in 1..Len(values) |-> F32Bits(values[i])]

Range(s) == {s[i] : i \in 1..Len(s)}

RECURSIVE SetToSortedSeq(_)
SetToSortedSeq(S) ==
    IF S = {} THEN <<>>
    ELSE LET m == CHOOSE x \in S : \A y \in S : x <= y
         IN  <<m>> \o SetToSortedSeq(S \ {m})

Prefix(s, k) == SubSeq(s, 1, Min(k, Len(s)))

\* Row-major element (i, j), 1-based, of a flat array with c columns.
At(data, c, i, j) == data[(i - 1) * c + j]

\* data[:k, :k] of an r x c row-major array: its leading block, row-major.
Block(data, r, c, k) ==
    LET rr == Min(k, r)
        cc == Min(k, c)
    IN  [x \in 1..(rr * cc) |-> At(data, c, ((x - 1) \div cc) + 1, ((x - 1) % cc) + 1)]

----------------------------------------------------------------------------
\* The callers' inputs.

\* A number float32 cannot hold: 2^24 + 1 (astype(np.float32) gives 2^24).
Unrepresentable == Pow2(24) + 1

Dims == 1..MaxN

LabelSeq(b, n) == [i \in 1..n |-> b + i - 1]

LabelSeqs(n) == {LabelSeq(b, n) : b \in {10, 20}}

\* Cell values of an r x c input: 1..r*c in row-major order, or the same with
\* the last cell holding a number float32 cannot represent.
CellValues(r, c) ==
    LET base == [x \in 1..(r * c) |-> x]
    IN  {base, [base EXCEPT ![r * c] = Unrepresentable]}

\* A matrix argument: a pandas DataFrame, a pandas Series (index and columns
\* hold its level-0 and level-1 labels, entry by entry) or a raw array-like.
Matrix(kind, index, columns, nlevels, shape, values) ==
    [kind |-> kind, index |-> index, columns |-> columns, nlevels |-> nlevels,
     shape |-> shape, values |-> values]

DataFrames ==
    {Matrix("DataFrame", ix, cl, 1, <<Len(ix), Len(cl)>>, v) :
        ix \in UNION {LabelSeqs(n) : n \in Dims},
        cl \in {LabelSeq(10, n) : n \in Dims},
        v \in UNION {CellValues(r, c) : r \in Dims, c \in Dims}}

Frames == {m \in DataFrames : Len(m.values) = Len(m.index) * Len(m.columns)}

SquareFrames == {m \in Frames : m.index = m.columns}

RawArrays ==
    {Matrix("ndarray", <<>>, <<>>, 0, <<r, c>>, v) :
        r \in Dims, c \in Dims, v \in UNION {CellValues(x, y) : x \in Dims, y \in Dims}}

Raws ==
    {m \in RawArrays : Len(m.values) = m.shape[1] * m.shape[2]}
    \cup {Matrix("ndarray", <<>>, <<>>, 0, <<2>>, <<1, 2>>)}

PairLess(p, q) == p[1] < q[1] \/ (p[1] = q[1] /\ p[2] < q[2])

RECURSIVE SortPairs(_)
SortPairs(S) ==
    IF S = {} THEN <<>>
    ELSE LET m == CHOOSE p \in S : \A q \in S \ {p} : PairLess(p, q)
         IN  <<m>> \o SortPairs(S \ {m})

Grid(n) == Range(LabelSeq(10, n)) \X Range(LabelSeq(10, n))

\* Index sets of the 2-level Series inputs: the full grid of n labels, the
\* grid less one entry, and the sparse ones of one or two entries.
SeriesPairSets ==
    UNION {{S \in SUBSET Grid(n) :
              /\ S # {}
              /\ (Cardinality(S) >= n * n - 1 \/ Cardinality(S) <= 2)} : n \in Dims}

SeriesOf(S, nlevels) ==
    LET ps == SortPairs(S)
    IN  Matrix("Series", [i \in 1..Len(ps) |-> ps[i][1]], [i \in 1..Len(ps) |-> ps[i][2]],
               nlevels, <<Len(ps)>>, [i \in 1..Len(ps) |-> i])

SeriesInputs ==
    {SeriesOf(S, 2) : S \in SeriesPairSets}
    \cup {Matrix("Series", <<10, 11>>, <<>>, 1, <<2>>, <<1, 2>>)}

Inputs == Frames \cup Raws \cup SeriesInputs

----------------------------------------------------------------------------
\* common.py

Coerced(err, shape, data) == [ok |-> err = "", err |-> err, shape |-> shape, data |-> data]

\* matrix.unstack(), then reindex both axes to the union of their labels with
\* fill_value=0.0: a cell whose row label or column label is new to its axis is
\* 0.0, a cell of an existing row and column the Series does not list stays NaN.
Unstacked(matrix) ==
    LET rows  == Range(matrix.index)
        cols  == Range(matrix.columns)
        union == SetToSortedSeq(rows \cup cols)
        n     == Len(union)
        Cell(a, b) ==
            IF \E k \in 1..Len(matrix.index) : matrix.index[k] = a /\ matrix.columns[k] = b
            THEN LET k == CHOOSE k \in 1..Len(matrix.index) :
                              matrix.index[k] = a /\ matrix.columns[k] = b
                 IN  F32Bits(matrix.values[k])
            ELSE IF a \notin rows \/ b \notin cols THEN F32Bits(0)
            ELSE NaNBits
    IN  [shape |-> <<n, n>>,
         data |-> [x \in 1..(n * n) |->
                      Cell(union[((x - 1) \div n) + 1], union[((x - 1) % n) + 1])]]

coerce_matrix(matrix, allow_raw, force_square) ==
    IF matrix.kind = "DataFrame" THEN
        IF force_square /\ matrix.index # matrix.columns
        THEN Coerced("AssertionError", <<>>, <<>>)
        ELSE Coerced("", matrix.shape, AsFloat32(matrix.values))
    ELSE IF matrix.kind = "Series" THEN
        IF matrix.nlevels # 2
        THEN Coerced("AssertionError", <<>>, <<>>)
        ELSE Coerced("", Unstacked(matrix).shape, Unstacked(matrix).data)
    ELSE IF ~allow_raw THEN Coerced("NotImplementedError", <<>>, <<>>)
    ELSE IF Len(matrix.shape) # 2 THEN Coerced("AssertionError", <<>>, <<>>)
    ELSE IF force_square /\ matrix.shape[1] # matrix.shape[2]
    THEN Coerced("AssertionError", <<>>, <<>>)
    ELSE Coerced("", matrix.shape, AsFloat32(matrix.values))

----------------------------------------------------------------------------
\* Calls, results and streams.

NoMatrix == Matrix("none", <<>>, <<>>, 0, <<>>, <<>>)

\* The zones argument: None, an integer k, or a sequence of labels.
NoZones == [kind |-> "none", k |-> 0, labels |-> <<>>]
IntZones(k) == [kind |-> "int", k |-> k, labels |-> <<>>]
LabelZones(ls) == [kind |-> "labels", k |-> 0, labels |-> ls]

\* The fill_value argument: None, or a number.
NoFill == [given |-> FALSE, value |-> 0]
Fill(v) == [given |-> TRUE, value |-> v]

\* One call of an entry point; via is "path" when file is a path the codec
\* opens itself and "stream" when it is a stream the caller opened.
Call(op, via) ==
    [op |-> op, via |-> via, matrix |-> NoMatrix, zones |-> NoZones, tall |-> FALSE,
     raw |-> FALSE, emmebank_zones |-> 0, n_columns |-> 0, reindex_rows |-> FALSE,
     fill_value |-> NoFill, force_square |-> FALSE, min_index |-> 0]

\* What a call returned or raised.  inferred is the dimension the decoder
\* worked out from the element count (-1 when it did not get that far).
Result(kind, err, shape, data, index, columns, inferred) ==
    [kind |-> kind, err |-> err, shape |-> shape, data |-> data, index |-> index,
     columns |-> columns, inferred |-> inferred]

Raised(err, inferred) == Result("error", err, <<>>, <<>>, <<>>, <<>>, inferred)

Returned(kind, shape, data, index, columns, inferred) ==
    Result(kind, "", shape, data, index, columns, inferred)

ReturnedNone == Result("None", "", <<>>, <<>>, <<>>, <<>>, -1)

\* What a lower-level writer did: the arrays it passed to tofile, in order,
\* whether coerce_matrix had returned, and the exception that ended it.
Written(err, chunks, coerced) == [err |-> err, chunks |-> chunks, coerced |-> coerced]

RECURSIVE Concat(_)
Concat(chunks) == IF chunks = <<>> THEN <<>> ELSE Head(chunks) \o Concat(Tail(chunks))

\* ndarray.tofile on a handle opened 'rb': the first write raises IOError.
OnHandle(mode, w) ==
    IF mode = "rb" /\ w.chunks # <<>> THEN Written("IOError", <<>>, w.coerced) ELSE w

\* with open(file, mode) as handle: <body>.  The handle is closed when the
\* body returns and when it raises.
WithOpenNoFinally(mode, body_ops, err) ==
    <<mode>> \o body_ops \o (IF err = "" THEN <<"close">> ELSE <<>>)

WithOpen(mode, body_ops, err) == <<mode>> \o body_ops \o <<"close">>

----------------------------------------------------------------------------
\* emme.py, fortran.py: encoders

\* 0xC4D4F1B2, named as an int32.
MagicWord == -992677454

_to_mdf(matrix) ==
    LET data == coerce_matrix(matrix, FALSE, TRUE)
        header == <<MagicWord, 1, 1, 2>>
    IN  IF ~data.ok THEN Written(data.err, <<>>, FALSE)
        \* np.array(matrix.index, dtype=np.int32) of a MultiIndex: an array of
        \* tuples cannot be cast to int32.
        ELSE IF matrix.kind = "Series" THEN Written("TypeError", <<header, data.shape>>, TRUE)
        ELSE Written("", <<header, data.shape, matrix.index, matrix.columns, data.data>>, TRUE)

_to_emx_misplaced(matrix, max_zones) ==
    LET data == coerce_matrix(matrix, TRUE, TRUE)
        n == IF data.ok THEN data.shape[1] ELSE 0
    IN  IF ~data.ok THEN Written(data.err, <<>>, FALSE)
        ELSE IF n > max_zones
        THEN Written("", <<Block(data.data, n, n, max_zones)>>, TRUE)
        ELSE Written("", <<[x \in 1..(max_zones * max_zones) |->
                              IF x <= n * n THEN data.data[x] ELSE F32Bits(0)]>>, TRUE)

_to_emx(matrix, max_zones) ==
    LET data == coerce_matrix(matrix, TRUE, TRUE)
        n == IF data.ok THEN data.shape[1] ELSE 0
    IN  IF ~data.ok THEN Written(data.err, <<>>, FALSE)
        ELSE IF n > max_zones
        THEN Written("", <<Block(data.data, n, n, max_zones)>>, TRUE)
        ELSE Written("", <<[x \in 1..(max_zones * max_zones) |->
                              LET i == ((x - 1) \div max_zones) + 1
                                  j == ((x - 1) % max_zones) + 1
                              IN  IF i <= n /\ j <= n THEN At(data.data, n, i, j)
                                  ELSE F32Bits(0)]>>, TRUE)

\* temp[:, 0] holds the int32 row ordinals' bits, temp[:, 1:] the array.
_to_fortran(array, mindex) ==
    LET rows == array.shape[1]
        cols == array.shape[2]
    IN  Written("", <<[x \in 1..(rows * (cols + 1)) |->
                         LET i == ((x - 1) \div (cols + 1)) + 1
                             j == (x - 1) % (cols + 1)
                         IN  IF j = 0 THEN mindex + i - 1
                             ELSE At(array.data, cols, i, j)]>>, TRUE)

Absent == [exists |-> FALSE, words |-> <<>>]
Holding(words) == [exists |-> TRUE, words |-> words]

WriteOps(w) == [i \in 1..Len(w.chunks) |-> "write"]

\* A caller-supplied output stream is a file the caller has just opened 'wb':
\* empty, positioned at its start.
FreshStream(f) == f.exists /\ f.words = <<>>

Outcome(w) == IF w.err = "" THEN ReturnedNone ELSE Raised(w.err, -1)

\* An encoder's call on a path: open(file, mode) and the body inside `with`.
EncodePath(c, mode, w) ==
    IF mode = "rb" /\ ~file.exists
    THEN /\ file' = file
         /\ res' = Raised("IOError", -1)
         /\ ops' = <<>>
         /\ call' = c
    ELSE /\ file' = IF mode = "wb" THEN Holding(Concat(OnHandle(mode, w).chunks)) ELSE file
         /\ res' = Outcome(OnHandle(mode, w))
         /\ ops' = WithOpen(mode, WriteOps(OnHandle(mode, w)), OnHandle(mode, w).err)
         /\ call' = c

\* An encoder's call on the caller's stream.
EncodeStream(c, w) ==
    /\ FreshStream(file)
    /\ file' = Holding(Concat(w.chunks))
    /\ res' = Outcome(w)
    /\ ops' = WriteOps(w)
    /\ call' = c

to_mdf(matrix, via) ==
    LET c == [Call("to_mdf", via) EXCEPT !.matrix = matrix]
    IN  IF via = "path" THEN EncodePath(c, "rb", _to_mdf(matrix))
        ELSE EncodeStream(c, _to_mdf(matrix))

to_emx(matrix, via, emmebank_zones) ==
    LET c == [Call("to_emx", via) EXCEPT !.matrix = matrix, !.emmebank_zones = emmebank_zones]
    IN  IF ~(emmebank_zones > 0)
        THEN /\ via = "stream" => FreshStream(file)
             /\ file' = file
             /\ res' = Raised("AssertionError", -1)
             /\ ops' = <<>>
             /\ call' = c
        ELSE IF via = "path" THEN EncodePath(c, "wb", _to_emx(matrix, emmebank_zones))
        ELSE EncodeStream(c, _to_emx(matrix, emmebank_zones))

to_fortran(matrix, via, force_square, min_index) ==
    LET c == [Call("to_fortran", via) EXCEPT !.matrix = matrix,
                 !.force_square = force_square, !.min_index = min_index]
        array == coerce_matrix(matrix, TRUE, force_square)
    IN  IF ~array.ok
        THEN /\ via = "stream" => FreshStream(file)
             /\ file' = file
             /\ res' = Raised(array.err, -1)
             /\ ops' = <<>>
             /\ call' = c
        ELSE IF via = "path" THEN EncodePath(c, "wb", _to_fortran(array, min_index))
        ELSE EncodeStream(c, _to_fortran(array, min_index))

\* The caller opens the file for writing, to hand the stream to an encoder.
caller_open ==
    /\ file' = Holding(<<>>)
    /\ call' = Call("open", "stream")
    /\ res' = ReturnedNone
    /\ ops' = <<>>

----------------------------------------------------------------------------
\* numpy and pandas operations the decoders use.

\* np.fromfile(handle, dtype, count) at word offset pos: up to count elements
\* of `width` words each; fewer, without an error, when the stream ends first.
\* A negative count reads to the end of the stream.
FromFile(words, pos, count, width) ==
    LET avail == IF Len(words) > pos THEN (Len(words) - pos) \div width ELSE 0
        n == IF count < 0 THEN avail ELSE Min(count, avail)
    IN  SubSeq(words, pos + 1, pos + n * width)

RECURSIVE Prod(_)
Prod(s) == IF s = <<>> THEN 1 ELSE Head(s) * Prod(Tail(s))

\* Assigning a 1-D shape of new_len to a 2-D view of r rows and c columns whose
\* rows lie row_stride elements apart: numpy refuses a different size
\* (ValueError) and a view it would have to copy (AttributeError).
SetShape1D(r, c, row_stride, new_len) ==
    IF new_len # r * c THEN "ValueError"
    ELSE IF r * c = 0 \/ r = 1 \/ c = 1 \/ row_stride = c THEN ""
    ELSE "AttributeError"

\* DataFrame.stack(): one entry per cell in row-major order, NaN cells dropped.
Stack(index, columns, data, inferred) ==
    LET c == Len(columns)
        kept == SetToSortedSeq({x \in 1..Len(data) : ~IsNaN(data[x])})
    IN  Returned("Series", <<Len(kept)>>,
                 [i \in 1..Len(kept) |-> data[kept[i]]],
                 [i \in 1..Len(kept) |-> index[((kept[i] - 1) \div c) + 1]],
                 [i \in 1..Len(kept) |-> columns[((kept[i] - 1) % c) + 1]],
                 inferred)

\* pd.DataFrame(data, index=index, columns=columns) of an r x c block, then
\* .stack() if tall.
NewDataFrame(data, r, c, index, columns, tall, inferred) ==
    IF Len(index) # r \/ Len(columns) # c THEN Raised("ValueError", inferred)
    ELSE IF tall THEN Stack(index, columns, data, inferred)
    ELSE Returned("DataFrame", <<r, c>>, data, index, columns, inferred)

\* What a lower-level reader did: its result and its reads.
Decoded(result, reads) == [res |-> result, ops |-> [i \in 1..reads |-> "read"]]

----------------------------------------------------------------------------
\* emme.py: decoders

ElementWords(dtype_index) == IF dtype_index = 2 THEN 2 ELSE 1

_from_mdf(words, raw, tall) ==
    LET header == FromFile(words, 0, 4, 1)
    IN  IF Len(header) # 4 THEN Decoded(Raised("ValueError", -1), 1)
        ELSE LET magic == header[1]
                 version == header[2]
                 dtype_index == header[3]
                 ndim == header[4]
             IN
        IF magic # MagicWord \/ version # 1 \/ ~(0 < dtype_index /\ dtype_index <= 4)
              \/ ~(0 < ndim /\ ndim <= 2)
        THEN Decoded(Raised("IOError", -1), 1)
        ELSE LET shape == FromFile(words, 4, ndim, 1)
                 pos1 == 4 + Len(shape)
                 index0 == IF Len(shape) >= 1 THEN FromFile(words, pos1, shape[1], 1) ELSE <<>>
                 pos2 == pos1 + Len(index0)
                 index1 == IF Len(shape) >= 2 THEN FromFile(words, pos2, shape[2], 1) ELSE <<>>
                 pos3 == pos2 + Len(index1)
                 width == ElementWords(dtype_index)
                 flat_length == Prod(shape)
                 matrix == FromFile(words, pos3, flat_length, width)
                 size == Len(matrix) \div width
                 reads == 3 + Len(shape)
             IN
        \* shape.prod() of an empty array is the float 1.0, which np.fromfile
        \* does not take as a count.
        IF shape = <<>> THEN Decoded(Raised("TypeError", -1), 2)
        ELSE IF raw /\ tall
        THEN Decoded(Returned("ndarray", <<size>>, matrix, <<>>, <<>>, flat_length), reads)
        ELSE IF size # flat_length THEN Decoded(Raised("ValueError", flat_length), reads)
        ELSE IF raw
        THEN Decoded(Returned("ndarray", shape, matrix, <<>>, <<>>, flat_length), reads)
        ELSE IF ndim = 1
        THEN IF Len(index0) # size THEN Decoded(Raised("ValueError", flat_length), reads)
             ELSE Decoded(Returned("Series", shape, matrix, index0, <<>>, flat_length), reads)
        ELSE IF Len(shape) < 2 THEN Decoded(Raised("IndexError", flat_length), reads)
        ELSE Decoded(NewDataFrame(matrix, shape[1], shape[2], index0, index1, tall,
                                  flat_length), reads)

\* int(len(data) ** 0.5)
ISqrt(t) == CHOOSE n \in 0..t : n * n <= t /\ t < (n + 1) * (n + 1)

\* The zones / tall branches _from_emx and _from_fortran_square share, on an
\* n x n data block whose rows lie row_stride elements apart in memory.
SquareBranches(data, n, row_stride, zones, tall) ==
    IF zones.kind = "none" THEN
        IF tall
        THEN IF SetShape1D(n, n, row_stride, n * n) # ""
             THEN Raised(SetShape1D(n, n, row_stride, n * n), n)
             ELSE Returned("ndarray", <<n * n>>, data, <<>>, <<>>, n)
        ELSE Returned("ndarray", <<n, n>>, data, <<>>, <<>>, n)
    ELSE IF zones.kind = "int" THEN
        LET k == Min(zones.k, n)
        IN  IF tall
            THEN IF SetShape1D(k, k, row_stride, zones.k * zones.k) # ""
                 THEN Raised(SetShape1D(k, k, row_stride, zones.k * zones.k), n)
                 ELSE Returned("ndarray", <<zones.k * zones.k>>, Block(data, n, n, zones.k),
                               <<>>, <<>>, n)
            ELSE Returned("ndarray", <<k, k>>, Block(data, n, n, zones.k), <<>>, <<>>, n)
    ELSE LET m == Len(zones.labels)
             k == Min(m, n)
         IN  NewDataFrame(Block(data, n, n, m), k, k, zones.labels, zones.labels, tall, n)

_from_emx(words, zones, tall) ==
    LET data == FromFile(words, 0, -1, 1)
        n == ISqrt(Len(data))
    IN  IF Len(data) # n * n THEN Decoded(Raised("AssertionError", -1), 1)
        \* `zones is None and tall` returns the flat buffer before any reshape
        ELSE IF zones.kind = "none" /\ tall
        THEN Decoded(Returned("ndarray", <<Len(data)>>, data, <<>>, <<>>, n), 1)
        ELSE Decoded(SquareBranches(data, n, n, zones, tall), 1)

----------------------------------------------------------------------------
\* fortran.py: decoders

_infer_zones_unchecked(n_words) ==
    LET m == CHOOSE k \in 1..(n_words + 1) :
                 /\ (2 * k - 1) * (2 * k - 1) <= 1 + 4 * n_words
                 /\ (2 * k + 1) * (2 * k + 1) > 1 + 4 * n_words
    IN  [ok |-> TRUE, n |-> m - 1]

\* int(0.5 + ((1 + 4 * n_words) ** 0.5) / 2) - 1 is m - 1 for the largest m with
\* (2m - 1)^2 <= 1 + 4 * n_words; then the assert.
_infer_zones(n_words) ==
    LET m == CHOOSE k \in 1..(n_words + 1) :
                 /\ (2 * k - 1) * (2 * k - 1) <= 1 + 4 * n_words
                 /\ (2 * k + 1) * (2 * k + 1) > 1 + 4 * n_words
        n == m - 1
    IN  [ok |-> n_words = n * (n + 1), n |-> n]

DataBlockFromColumn0(words, rows, cols) ==
    [x \in 1..(rows * cols) |->
        At(words, cols + 1, ((x - 1) \div cols) + 1, ((x - 1) % cols) + 1)]

\* floats[:, 1:] of the (rows, cols + 1) array: the data block, row-major.
DataBlock(words, rows, cols) ==
    [x \in 1..(rows * cols) |->
        At(words, cols + 1, ((x - 1) \div cols) + 1, ((x - 1) % cols) + 2)]

_from_fortran_square(words, zones, tall) ==
    LET floats == FromFile(words, 0, -1, 1)
        n_words == Len(floats)
        matrix_size == _infer_zones(n_words)
        n == matrix_size.n
    IN  IF ~matrix_size.ok THEN Decoded(Raised("AssertionError", -1), 1)
        ELSE Decoded(SquareBranches(DataBlock(Prefix(floats, n * (n + 1)), n, n), n, n + 1,
                                    zones, tall), 1)

\* zones.take(indices): numpy indexing, a negative index counts from the end.
TakeOk(zones, indices) ==
    \A i \in 1..Len(indices) : -Len(zones) <= indices[i] /\ indices[i] < Len(zones)

Take(zones, indices) ==
    [i \in 1..Len(indices) |->
        IF indices[i] >= 0 THEN zones[indices[i] + 1] ELSE zones[Len(zones) + indices[i] + 1]]

TakeByPosition(zones, indices) == [i \in 1..Len(indices) |-> zones[i]]

\* The row labels of the decoded rows: zones.take(row_index[:nzones]).
RowLabels(zones, row_index) == Take(zones, row_index)

\* DataFrame.reindex_axis(zones, axis=0, fill_value=fill_value): the rows in the
\* order of zones; a label no row carries gets a row of fill_value, and
\* fill_value=None is the block's own missing value, NaN.
ReindexRows(data, row_labels, c, zones, fill_value) ==
    LET fill == IF fill_value.given THEN F32Bits(fill_value.value) ELSE NaNBits
    IN  [x \in 1..(Len(zones) * c) |->
            LET z == zones[((x - 1) \div c) + 1]
                j == ((x - 1) % c) + 1
            IN  IF \E i \in 1..Len(row_labels) : row_labels[i] = z
                THEN At(data, c, CHOOSE i \in 1..Len(row_labels) : row_labels[i] = z, j)
                ELSE fill]

_from_fortran_binary(words, n_columns, zones, tall, reindex_rows, fill_value) ==
    LET matrix == FromFile(words, 0, -1, 1)
        rows == Len(matrix) \div (n_columns + 1)
        row_index == [i \in 1..rows |-> At(matrix, n_columns + 1, i, 1) - 1]
        data == DataBlock(matrix, rows, n_columns)
    IN  IF Len(matrix) # rows * (n_columns + 1) THEN Decoded(Raised("AssertionError", -1), 1)
        ELSE IF zones.kind = "none" THEN
            IF tall
            THEN IF SetShape1D(rows, n_columns, n_columns + 1, rows * n_columns) # ""
                 THEN Decoded(Raised(SetShape1D(rows, n_columns, n_columns + 1,
                                                rows * n_columns), rows), 1)
                 ELSE Decoded(Returned("ndarray", <<rows * n_columns>>, data, <<>>, <<>>,
                                       rows), 1)
            ELSE Decoded(Returned("ndarray", <<rows, n_columns>>, data, <<>>, <<>>, rows), 1)
        ELSE IF zones.kind = "int" THEN
            LET r == Min(zones.k, rows)
                c == Min(zones.k, n_columns)
            IN  IF tall
                THEN IF SetShape1D(r, c, n_columns + 1, zones.k * zones.k) # ""
                     THEN Decoded(Raised(SetShape1D(r, c, n_columns + 1, zones.k * zones.k),
                                         rows), 1)
                     ELSE Decoded(Returned("ndarray", <<zones.k * zones.k>>,
                                           Block(data, rows, n_columns, zones.k),
                                           <<>>, <<>>, rows), 1)
                ELSE Decoded(Returned("ndarray", <<r, c>>,
                                      Block(data, rows, n_columns, zones.k),
                                      <<>>, <<>>, rows), 1)
        ELSE LET nzones == Len(zones.labels)
                 r == Min(nzones, rows)
                 c == Min(nzones, n_columns)
                 block == Block(data, rows, n_columns, nzones)
                 taken == Prefix(row_index, nzones)
                 row_labels == RowLabels(zones.labels, taken)
             IN  IF ~TakeOk(zones.labels, taken) THEN Decoded(Raised("IndexError", rows), 1)
                 ELSE IF c # nzones THEN Decoded(Raised("ValueError", rows), 1)
                 ELSE IF ~reindex_rows
                 THEN Decoded(NewDataFrame(block, r, c, row_labels, zones.labels, tall,
                                           rows), 1)
                 \* reindexing needs unique row labels
                 ELSE IF Cardinality(Range(row_labels)) # Len(row_labels)
                 THEN Decoded(Raised("ValueError", rows), 1)
                 ELSE Decoded(NewDataFrame(ReindexRows(block, row_labels, c, zones.labels,
                                                       fill_value),
                                           nzones, c, zones.labels, zones.labels, tall,
                                           rows), 1)

----------------------------------------------------------------------------
\* The decoders' entry points.

\* A decoder's call on a path: open(file, 'rb') and the body inside `with`.
DecodePath(c, d) ==
    /\ file' = file
    /\ call' = c
    /\ IF ~file.exists
       THEN /\ res' = Raised("IOError", -1)
            /\ ops' = <<>>
       ELSE /\ res' = d.res
            /\ ops' = WithOpen("rb", d.ops, d.res.err)

\* A decoder's call on the caller's stream, positioned at the start of the file.
DecodeStream(c, d) ==
    /\ file.exists
    /\ file' = file
    /\ call' = c
    /\ res' = d.res
    /\ ops' = d.ops

from_mdf(via, raw, tall) ==
    LET c == [Call("from_mdf", via) EXCEPT !.raw = raw, !.tall = tall]
    IN  IF via = "path" THEN DecodePath(c, _from_mdf(file.words, raw, tall))
        ELSE DecodeStream(c, _from_mdf(file.words, raw, tall))

from_emx(via, zones, tall) ==
    LET c == [Call("from_emx", via) EXCEPT !.zones = zones, !.tall = tall]
    IN  IF via = "path" THEN DecodePath(c, _from_emx(file.words, zones, tall))
        ELSE DecodeStream(c, _from_emx(file.words, zones, tall))

from_fortran_square(via, zones, tall) ==
    LET c == [Call("from_fortran_square", via) EXCEPT !.zones = zones, !.tall = tall]
    IN  IF via = "path" THEN DecodePath(c, _from_fortran_square(file.words, zones, tall))
        ELSE DecodeStream(c, _from_fortran_square(file.words, zones, tall))

from_fortran_rectangle(via, n_columns, zones, tall, reindex_rows, fill_value) ==
    LET c == [Call("from_fortran_rectangle", via) EXCEPT !.n_columns = n_columns,
                 !.zones = zones, !.tall = tall, !.reindex_rows = reindex_rows,
                 !.fill_value = fill_value]
    IN  IF via = "path"
        THEN DecodePath(c, _from_fortran_binary(file.words, n_columns, zones, tall,
                                                reindex_rows, fill_value))
        ELSE DecodeStream(c, _from_fortran_binary(file.words, n_columns, zones, tall,
                                                  reindex_rows, fill_value))

----------------------------------------------------------------------------
\* The state machine: one file and a session of calls on it.  No codec state
\* survives a call: what a call does depends on the file alone (whether it
\* exists, whether it is a fresh stream, its words).  A session is therefore
\* the caller opening the output or not, one encoder call or none, and one
\* decoder call or none; a longer session repeats these outcomes.

Vias == {"path", "stream"}

ZoneArgs ==
    {NoZones} \cup {IntZones(k) : k \in 0..(MaxN + 1)}
    \cup {LabelZones(ls) : ls \in UNION {LabelSeqs(n) : n \in Dims}}

FillArgs == {NoFill, Fill(7)}

EncoderOps == {"to_mdf", "to_emx", "to_fortran"}
DecoderOps == {"from_mdf", "from_emx", "from_fortran_square", "from_fortran_rectangle"}

\* The file is absent, or holds what an earlier writer left.
Init ==
    /\ file \in {Absent, Holding(<<F32Bits(9)>>)}
    /\ call = Call("none", "stream")
    /\ res = ReturnedNone
    /\ ops = <<>>

Open == call.op = "none" /\ caller_open

CanEncode == call.op \in {"none", "open"}
CanDecode == call.op \notin DecoderOps

EncodeMdf == CanEncode /\ \E m \in Inputs, via \in Vias : to_mdf(m, via)

EncodeEmx ==
    CanEncode /\ \E m \in Inputs, via \in Vias, z \in 0..(MaxN + 1) : to_emx(m, via, z)

EncodeFortran ==
    CanEncode /\ \E m \in Inputs, via \in Vias, sq \in BOOLEAN, mi \in {1, 2} :
                     to_fortran(m, via, sq, mi)

DecodeMdf ==
    CanDecode /\ \E via \in Vias, raw \in BOOLEAN, tall \in BOOLEAN : from_mdf(via, raw, tall)

DecodeEmx ==
    CanDecode /\ \E via \in Vias, z \in ZoneArgs, tall \in BOOLEAN : from_emx(via, z, tall)

DecodeFortranSquare ==
    CanDecode /\ \E via \in Vias, z \in ZoneArgs, tall \in BOOLEAN :
                     from_fortran_square(via, z, tall)

DecodeFortranRectangle ==
    CanDecode /\ \E via \in Vias, c \in Dims, z \in ZoneArgs, tall \in BOOLEAN,
                    rr \in BOOLEAN, fv \in FillArgs :
                     from_fortran_rectangle(via, c, z, tall, rr, fv)

Next ==
    \/ Open
    \/ EncodeMdf
    \/ EncodeEmx
    \/ EncodeFortran
    \/ DecodeMdf
    \/ DecodeEmx
    \/ DecodeFortranSquare
    \/ DecodeFortranRectangle

Spec == Init /\ [][Next]_vars

\* The file is cut short behind the codec's back (a copy that stopped early),
\* so that decoders also meet files no encoder completed.
truncate(k) ==
    /\ call.op \in EncoderOps
    /\ file.exists
    /\ k < Len(file.words)
    /\ file' = Holding(Prefix(file.words, k))
    /\ call' = Call("truncate", "path")
    /\ res' = ReturnedNone
    /\ ops' = <<>>

Truncate == \E k \in 0..(MaxN * MaxN + 2 * MaxN + 6) : truncate(k)

NextPartial == Next \/ Truncate

SpecPartial == Init /\ [][NextPartial]_vars

----------------------------------------------------------------------------
\* Claims.

Representable(M) == \A x \in 1..Len(M.values) : RoundF32(M.values[x]) = M.values[x]

\* The words each encoder leaves for the square labeled matrix M, with the
\* arguments C1 names.
MdfOf(M) == Concat(_to_mdf(M).chunks)
EmxOf(M) == Concat(_to_emx(M, Len(M.index)).chunks)
FortranOf(M) == Concat(_to_fortran(coerce_matrix(M, TRUE, TRUE), 1).chunks)

\* The call just made decoded, from the caller's stream, the words an encoder
\* left for M, with the arguments C1 names.
DecodedBack(M) ==
    /\ call.via = "stream"
    /\ file.exists
    /\ ~call.tall
    /\ \/ call.op = "from_mdf" /\ ~call.raw /\ file.words = MdfOf(M)
       \/ call.op = "from_emx" /\ call.zones = LabelZones(M.index) /\ file.words = EmxOf(M)
       \/ /\ call.op = "from_fortran_square"
          /\ call.zones = LabelZones(M.index)
          /\ file.words = FortranOf(M)

\* The result is a labeled matrix with M's labels and exactly M's values.
Reproduces(M) ==
    /\ res.kind = "DataFrame"
    /\ res.index = M.index
    /\ res.columns = M.columns
    /\ res.shape = M.shape
    /\ Len(res.data) = Len(M.values)
    /\ \A x \in 1..Len(M.values) : F32Equals(res.data[x], M.values[x])

\* C1 as stated: decoding what an encoder wrote for any square labeled matrix M
\* returns M's labels and values exactly, in each of MDF, EMX and FORTRAN-square.
C1_RoundTripEveryMatrix == \A M \in SquareFrames : DecodedBack(M) => Reproduces(M)

\* C1, amended: the round trip returns M's labels and values exactly for every
\* square labeled matrix M whose values float32 represents exactly.
C1_RoundTripFloat32 ==
    \A M \in SquareFrames : (Representable(M) /\ DecodedBack(M)) => Reproduces(M)

C1_Witness ==
    \E M \in SquareFrames :
        /\ Len(M.index) = 2
        /\ Representable(M)
        /\ DecodedBack(M)
        /\ call.op = "from_fortran_square"
        /\ res.kind = "DataFrame"

\* The call just made is to_emx on a square n x n DataFrame or array, with
\* target dimension d > 0.
EmxEncoded ==
    /\ call.op = "to_emx"
    /\ call.emmebank_zones > 0
    /\ call.matrix.kind \in {"DataFrame", "ndarray"}
    /\ coerce_matrix(call.matrix, TRUE, TRUE).ok

\* to_emx wrote d*d words, word (i, j) being Cell(input[i][j]) inside the input
\* and 0.0 outside it.
EmxLayout(Cell(_)) ==
    LET d == call.emmebank_zones
        n == call.matrix.shape[1]
    IN  /\ res.kind = "None"
        /\ file.exists
        /\ Len(file.words) = d * d
        /\ \A i \in 1..d, j \in 1..d :
              IF i <= n /\ j <= n
              THEN Cell(<<At(file.words, d, i, j), At(call.matrix.values, n, i, j)>>)
              ELSE At(file.words, d, i, j) = F32Bits(0)

WordEqualsInput(p) == F32Equals(p[1], p[2])
WordIsNearestFloat32(p) == p[1] = F32Bits(p[2])

\* C2 as stated: to_emx writes d*d float32 words, word (i, j) equal to
\* input[i][j] for i, j < n and 0.0 elsewhere.
C2_EmxWordsEqualInput == EmxEncoded => EmxLayout(WordEqualsInput)

\* C2, amended: to_emx writes d*d float32 words, word (i, j) being input[i][j]
\* converted to float32 for i, j < n and 0.0 elsewhere.
C2_EmxWordsAreFloat32OfInput == EmxEncoded => EmxLayout(WordIsNearestFloat32)

C2_Witness ==
    /\ EmxEncoded
    /\ call.matrix.shape[1] = 2
    /\ call.emmebank_zones = 3
    /\ Len(file.words) = 9

Total == Len(file.words)

ShapeError == res.kind = "error" /\ res.err = "AssertionError"

DefaultArgs == call.zones = NoZones /\ ~call.tall

\* The decoder either refused the element count with a shape error, when no n
\* solves Solves(n), or worked with the n that does; with zones and tall left at
\* their defaults it then returned the r x c block Dims2(n) names.
InfersExactly(Solves(_), Dims2(_)) ==
    IF \E n \in 0..Total : Solves(n)
    THEN /\ ~ShapeError
         /\ Solves(res.inferred)
         /\ DefaultArgs =>
               /\ res.kind = "ndarray"
               /\ res.shape = Dims2(res.inferred)
               /\ Len(res.data) = Dims2(res.inferred)[1] * Dims2(res.inferred)[2]
    ELSE ShapeError

EmxSolves(n) == n * n = Total
SquareSolves(n) == n * (n + 1) = Total
RectangleSolves(rows) == rows * (call.n_columns + 1) = Total
SquareDims(n) == <<n, n>>
RectangleDims(rows) == <<rows, call.n_columns>>

RectLabelled ==
    /\ call.op = "from_fortran_rectangle"
    /\ call.zones.kind = "labels"
    /\ file.exists
    /\ Total > 0
    /\ res.kind # "error"

RectRows == Min(Len(call.zones.labels), Total \div (call.n_columns + 1))
StoredIndex(i) == At(file.words, call.n_columns + 1, i, 1)
StoredValue(i, j) == At(file.words, call.n_columns + 1, i, j + 1)
StoredOneBased == \A i \in 1..RectRows : StoredIndex(i) \in 1..Len(call.zones.labels)

\* The labeled matrix C4 describes, with `missing` the fill of a row no decoded
\* row supplies when the caller gives no fill_value.
RectExpected(missing) ==
    LET zones == call.zones.labels
        m == Len(zones)
        fill == IF call.fill_value.given THEN F32Bits(call.fill_value.value) ELSE missing
        RowOf(z) == CHOOSE i \in 1..RectRows : zones[StoredIndex(i)] = z
    IN  IF call.reindex_rows
        THEN [index |-> zones,
              data |-> [x \in 1..(m * m) |->
                           LET z == zones[((x - 1) \div m) + 1]
                               j == ((x - 1) % m) + 1
                           IN  IF \E i \in 1..RectRows : zones[StoredIndex(i)] = z
                               THEN StoredValue(RowOf(z), j)
                               ELSE fill]]
        ELSE [index |-> [i \in 1..RectRows |-> zones[StoredIndex(i)]],
              data |-> [x \in 1..(RectRows * m) |->
                           StoredValue(((x - 1) \div m) + 1, ((x - 1) % m) + 1)]]

RectMatches(e) ==
    IF call.tall
    THEN res = Stack(e.index, call.zones.labels, e.data, res.inferred)
    ELSE /\ res.kind = "DataFrame"
         /\ res.index = e.index
         /\ res.columns = call.zones.labels
         /\ res.data = e.data

\* C4 as stated: rows are labeled zones[stored_index - 1], columns are zones;
\* with reindex_rows the row labels are zones in order and a row no decoded row
\* supplies is filled with fill_value, 0.0 when the caller gives none.
C4_RectangleFillZero ==
    (RectLabelled /\ StoredOneBased) => RectMatches(RectExpected(F32Bits(0)))

\* C4, amended: as stated, except that a row no decoded row supplies is filled
\* with NaN (pandas' missing value) when the caller gives no fill_value.
C4_RectangleFillNaN ==
    (RectLabelled /\ StoredOneBased) => RectMatches(RectExpected(NaNBits))

C4_Witness ==
    /\ RectLabelled
    /\ StoredOneBased
    /\ call.reindex_rows
    /\ ~call.fill_value.given
    /\ ~call.tall
    /\ StoredIndex(1) = 2
    /\ res.index = call.zones.labels
    /\ IsNaN(res.data[1])

\* The MDF stream ends before its header, shape words, labels or payload do.
MdfTruncated ==
    \/ Total < 4
    \/ /\ file.words[1] = MagicWord
       /\ file.words[2] = 1
       /\ file.words[3] \in 1..4
       /\ file.words[4] \in 1..2
       /\ \/ Total < 4 + file.words[4]
          \/ LET shape == SubSeq(file.words, 5, 4 + file.words[4])
             IN  Total < 4 + Len(shape) + (IF Len(shape) = 2 THEN shape[1] + shape[2]
                                            ELSE shape[1])
                         + Prod(shape) * ElementWords(file.words[3])

\* C5: from_mdf raises on a stream that ends early, whatever raw and tall are,
\* and a payload it returns has exactly product(shape) elements.
C5_MdfNeverPartial ==
    (call.op = "from_mdf" /\ file.exists) =>
        /\ MdfTruncated => res.kind = "error"
        /\ res.kind # "error" => Len(res.data) = res.inferred

\* coerce_matrix accepts the matrix of encoder call c.
InputCoerces(c) ==
    coerce_matrix(c.matrix, c.op # "to_mdf",
                  IF c.op = "to_fortran" THEN c.force_square ELSE TRUE).ok

\* C6: when coercion of the input fails, the encoder has not opened, created,
\* truncated or written its output.
C6_CoerceBeforeTouch == (call.op \in EncoderOps /\ ~InputCoerces(call)) => ops = <<>>

\* C7: a stream the codec opened is closed on every exit path, and a stream the
\* caller passed is never closed by the codec.
C7_StreamOwnership ==
    call.op \in EncoderOps \cup DecoderOps =>
        /\ call.via = "path" =>
              \/ ops = <<>>
              \/ /\ Len(ops) >= 2
                 /\ ops[1] \in {"rb", "wb"}
                 /\ ops[Len(ops)] = "close"
                 /\ \A i \in 2..(Len(ops) - 1) : ops[i] \in {"read", "write"}
        /\ call.via = "stream" => \A i \in 1..Len(ops) : ops[i] \in {"read", "write"}

C7_Witness ==
    /\ call.op = "from_emx"
    /\ call.via = "path"
    /\ res.kind = "error"
    /\ ops = <<"rb", "read", "close">>

\* C8: to_mdf accepts a 2-level Series and writes header, shape (|U|, |U|), the
\* labels U twice and |U|*|U| float32 values (0.0 where the Series has none),
\* U being the union of its level-0 and level-1 values.
C8_MdfEncodesSeries ==
    (/\ call.op = "to_mdf"
     /\ call.via = "stream"
     /\ call.matrix.kind = "Series"
     /\ call.matrix.nlevels = 2) =>
        LET M == call.matrix
            U == SetToSortedSeq(Range(M.index) \cup Range(M.columns))
            u == Len(U)
            Value(a, b) ==
                IF \E k \in 1..Len(M.index) : M.index[k] = a /\ M.columns[k] = b
                THEN F32Bits(M.values[CHOOSE k \in 1..Len(M.index) :
                                          M.index[k] = a /\ M.columns[k] = b])
                ELSE F32Bits(0)
        IN  /\ res.kind = "None"
            /\ file.words = <<MagicWord, 1, 1, 2, u, u>> \o U \o U
                            \o [x \in 1..(u * u) |->
                                   Value(U[((x - 1) \div u) + 1], U[((x - 1) % u) + 1])]

\* C9: with zones an integer k >= 0, from_emx and from_fortran_square return the
\* leading min(k, n) block of the stored n x n data without raising, flattened
\* row-major when tall.
C9_IntegerZones ==
    \A n \in 0..Total :
        (/\ file.exists
         /\ call.zones.kind = "int"
         /\ \/ call.op = "from_emx" /\ Total = n * n
            \/ call.op = "from_fortran_square" /\ Total = n * (n + 1)) =>
            LET stored == IF call.op = "from_emx" THEN file.words
                          ELSE DataBlock(file.words, n, n)
                m == Min(call.zones.k, n)
            IN  /\ res.kind = "ndarray"
                /\ res.data = Block(stored, n, n, call.zones.k)
                /\ res.shape = IF call.tall THEN <<m * m>> ELSE <<m, m>>

\* What the lower-level function of call c does on a stream over `words`.
StreamWritten(c) ==
    IF c.op = "to_mdf" THEN _to_mdf(c.matrix)
    ELSE IF c.op = "to_emx"
    THEN IF c.emmebank_zones > 0 THEN _to_emx(c.matrix, c.emmebank_zones)
         ELSE Written("AssertionError", <<>>, FALSE)
    ELSE IF InputCoerces(c)
    THEN _to_fortran(coerce_matrix(c.matrix, TRUE, c.force_square), c.min_index)
    ELSE Written(coerce_matrix(c.matrix, TRUE, c.force_square).err, <<>>, FALSE)

StreamDecoded(c, words) ==
    IF c.op = "from_mdf" THEN _from_mdf(words, c.raw, c.tall)
    ELSE IF c.op = "from_emx" THEN _from_emx(words, c.zones, c.tall)
    ELSE IF c.op = "from_fortran_square" THEN _from_fortran_square(words, c.zones, c.tall)
    ELSE _from_fortran_binary(words, c.n_columns, c.zones, c.tall, c.reindex_rows,
                              c.fill_value)

\* C10: a call on a path does what the same call does on a stream over that
\* file: a decoder returns the same result, an encoder returns the same and
\* leaves the file holding the words the stream-based call writes.
C10_PathAsStream ==
    call.via = "path" =>
        /\ call.op \in EncoderOps =>
              /\ res = Outcome(StreamWritten(call))
              /\ res.kind = "None" => file = Holding(Concat(StreamWritten(call).chunks))
        /\ (call.op \in DecoderOps /\ file.exists) => res = StreamDecoded(call, file.words).res

====
